---------------------------- MODULE Spec2Model ----------------------------
(***************************************************************************)
(* Model of graphql_compiler/schema_transformation/query_plan.py:          *)
(* make_query_plan (plan construction with @filter injection) and          *)
(* execute_query_plan (sequential execution, argument propagation, join    *)
(* and projection).                                                        *)
(*                                                                         *)
(* Python objects that are compared by identity or that carry back         *)
(* references (SubQueryPlan) live in an arena: a plan object is its        *)
(* position in the sequence "plans", in creation order.  An optional       *)
(* attribute (None or a value) is a sequence of length 0 or 1.             *)
(***************************************************************************)
EXTENDS Integers, Sequences, FiniteSets, TLC

(***************************************************************************)
(* Bounds of the model.                                                    *)
(***************************************************************************)
\* largest number of SubQueryNodes in an input tree
MaxNodes == 4
\* executor calls plus rows returned by executors, over one execution
MaxWork == 5
\* largest number of rows one executor call returns
MaxRows == 2
\* row values are None or 1..MaxVal
MaxVal == 2
\* nodes of a plan that is executed twice
MaxRepeatNodes == 2

(***************************************************************************)
(* Python values.                                                          *)
(***************************************************************************)
\* Python's None as a row value (data values are 1..MaxVal)
None == 0
Values == 1..MaxVal
\* an absent optional attribute (x is None) and a present one
Absent == <<>>
Present(x) == <<x>>
\* output names used by connections and rows
Names == {"a", "b"}

(***************************************************************************)
(* GraphQL AST nodes (graphql.language.ast), as far as query_plan.py reads *)
(* them.                                                                   *)
(***************************************************************************)
\* Directive(name=Name("output"), arguments=[Argument("out_name", StringValue(n))])
OutputDirective(n) ==
  [name |-> "output", arguments |-> <<[name |-> "out_name", value |-> n]>>]

\* a runtime parameter is written "$" followed by the variable's name
RuntimeParameter(n) == <<"$", n>>

\* a @filter directive written by the user: op_name and a list of parameters
FilterDirectiveAst(op, params) ==
  [name |-> "filter",
   arguments |-> <<[name |-> "op_name", value |-> op],
                   [name |-> "value", value |-> params]>>]

Field(n, directives, selection_set) ==
  [kind |-> "Field", name |-> n, directives |-> directives,
   selection_set |-> selection_set]

InlineFragment(selection_set) ==
  [kind |-> "InlineFragment", name |-> "on", directives |-> Absent,
   selection_set |-> selection_set]

OperationDefinition(selection_set) ==
  [kind |-> "OperationDefinition", name |-> "query", directives |-> Absent,
   selection_set |-> selection_set]

\* a node that may not occur as a selection of this compiler's queries
FragmentSpread(n) ==
  [kind |-> "FragmentSpread", name |-> n, directives |-> Absent,
   selection_set |-> Absent]

\* SelectionSet(selections=sels), present
SelectionSet(sels) == Present(sels)

Document(definitions) == [definitions |-> definitions]

\* ast_manipulation.get_only_query_definition: the document's only definition
get_only_query_definition(document) == document.definitions[1]

(***************************************************************************)
(* Predicate injection.                                                    *)
(***************************************************************************)
is_output_directive_with_name(directive, out_name) ==
  /\ directive.name = "output"
  /\ directive.arguments[1].value = out_name

get_in_collection_filter_directive(input_filter_name) ==
  [name |-> "filter",
   arguments |-> <<[name |-> "op_name", value |-> "in_collection"],
                   [name |-> "value",
                    value |-> <<RuntimeParameter(input_filter_name)>>]>>]

\* line 182-188: the field carries an @output with the wanted out_name
FieldHasOutput(ast, field_out_name) ==
  /\ ast.directives /= Absent
  /\ \E i \in 1..Len(ast.directives[1]) :
        is_output_directive_with_name(ast.directives[1][i], field_out_name)

\* The result of a call: err is the exception raised ("none": it returned),
\* same tells whether the returned object is the input object (Python's "is"),
\* ast is the returned node.
\* a return that always hands back a fresh copy, never the input object
ReturnedCopy(ast, same) == [err |-> "none", same |-> FALSE, ast |-> ast]
Returned(ast, same) == [err |-> "none", same |-> same, ast |-> ast]
Raised(ast, e) == [err |-> e, same |-> TRUE, ast |-> ast]

RECURSIVE add_filter_at_field_with_output(_, _, _)
RECURSIVE AddFilterSelections(_, _, _, _, _, _)

\* the loop without the check of lines 206-215: a second change goes unnoticed
AddFilterSelectionsUnchecked(ast, field_out_name, input_filter_name, i, made_changes, new_selections) ==
  LET selections == ast.selection_set[1] IN
  IF i > Len(selections)
  THEN IF made_changes
       THEN Returned([ast EXCEPT !.selection_set = SelectionSet(new_selections)],
                     FALSE)
       ELSE Returned(ast, TRUE)
  ELSE LET r == add_filter_at_field_with_output(selections[i], field_out_name,
                                                input_filter_name)
       IN IF r.err /= "none" THEN Raised(ast, r.err)
          ELSE AddFilterSelections(ast, field_out_name, input_filter_name,
                                   i + 1, made_changes \/ ~r.same,
                                   Append(new_selections, r.ast))

\* the loop of lines 199-216 from selection i on
AddFilterSelections(ast, field_out_name, input_filter_name, i, made_changes, new_selections) ==
  LET selections == ast.selection_set[1] IN
  IF i > Len(selections)
  THEN IF made_changes
       THEN Returned([ast EXCEPT !.selection_set = SelectionSet(new_selections)],
                     FALSE)
       ELSE Returned(ast, TRUE)
  ELSE LET r == add_filter_at_field_with_output(selections[i], field_out_name,
                                                input_filter_name)
       IN IF r.err /= "none" THEN Raised(ast, r.err)
          ELSE IF (~r.same) /\ made_changes
          THEN Raised(ast, "GraphQLValidationError")
          ELSE AddFilterSelections(ast, field_out_name, input_filter_name,
                                   i + 1, made_changes \/ ~r.same,
                                   Append(new_selections, r.ast))

add_filter_at_field_with_output(ast, field_out_name, input_filter_name) ==
  IF ast.kind \notin {"Field", "InlineFragment", "OperationDefinition"}
  THEN Raised(ast, "AssertionError")
  ELSE IF ast.kind = "Field" /\ FieldHasOutput(ast, field_out_name)
  THEN Returned(
         [ast EXCEPT !.directives =
            Present(Append(ast.directives[1],
                           get_in_collection_filter_directive(input_filter_name)))],
         FALSE)
  ELSE IF ast.selection_set = Absent
  THEN Returned(ast, TRUE)
  ELSE AddFilterSelections(ast, field_out_name, input_filter_name, 1, FALSE,
                           <<>>)

(***************************************************************************)
(* The input: a tree of SubQueryNodes joined by QueryConnections.          *)
(***************************************************************************)
\* query { e { x @output(out_name: "a")  y @output(out_name: "b") } }
FragPlain ==
  Document(<<OperationDefinition(SelectionSet(<<
    Field("e", Absent, SelectionSet(<<
      Field("x", Present(<<OutputDirective("a")>>), Absent),
      Field("y", Present(<<OutputDirective("b")>>), Absent)>>))>>))>>)

\* query { x @filter(op_name: "=", value: ["$a"]) @output(out_name: "a")
\*         ... on T { y @output(out_name: "b") } }
FragFiltered ==
  Document(<<OperationDefinition(SelectionSet(<<
    Field("x", Present(<<FilterDirectiveAst("=", <<RuntimeParameter("a")>>),
                         OutputDirective("a")>>), Absent),
    InlineFragment(SelectionSet(<<
      Field("y", Present(<<OutputDirective("b")>>), Absent)>>))>>))>>)

\* query { x @output(out_name: "a") { y @output(out_name: "a") }
\*         z @output(out_name: "b") }
FragNested ==
  Document(<<OperationDefinition(SelectionSet(<<
    Field("x", Present(<<OutputDirective("a")>>), SelectionSet(<<
      Field("y", Present(<<OutputDirective("a")>>), Absent)>>)),
    Field("z", Present(<<OutputDirective("b")>>), Absent)>>))>>)

\* query { e { x @output(out_name: "a")  y @output(out_name: "a") } }
FragSiblings ==
  Document(<<OperationDefinition(SelectionSet(<<
    Field("e", Absent, SelectionSet(<<
      Field("x", Present(<<OutputDirective("a")>>), Absent),
      Field("y", Present(<<OutputDirective("a")>>), Absent)>>))>>))>>)

\* query { e { f { x @output(out_name: "a") } }
\*         ... on T { y @output(out_name: "a") } }
FragBranches ==
  Document(<<OperationDefinition(SelectionSet(<<
    Field("e", Absent, SelectionSet(<<
      Field("f", Present(<<>>), SelectionSet(<<
        Field("x", Present(<<OutputDirective("a")>>), Absent)>>))>>)),
    InlineFragment(SelectionSet(<<
      Field("y", Present(<<OutputDirective("a")>>), Absent)>>))>>))>>)

\* query { e { x } }
FragNone ==
  Document(<<OperationDefinition(SelectionSet(<<
    Field("e", Absent, SelectionSet(<<
      Field("x", Absent, Absent)>>))>>))>>)

\* query { x @output(out_name: "a")  ...S }
FragSpread ==
  Document(<<OperationDefinition(SelectionSet(<<
    Field("x", Present(<<OutputDirective("a")>>), Absent),
    FragmentSpread("S")>>))>>)

Fragments == {FragPlain, FragFiltered, FragNested, FragSiblings, FragBranches,
              FragNone, FragSpread}

\* adjacent sub-queries target different schemas
SchemaIds == <<"first", "second">>
SchemaAt(depth) == SchemaIds[(depth % 2) + 1]

RECURSIVE NodesOfSize(_, _, _)
RECURSIVE ConnectionsOfSize(_, _, _)

\* the SubQueryNode trees of n nodes whose nodes all carry the fragment frag
NodesOfSize(n, frag, depth) ==
  {[query_ast |-> frag, schema_id |-> SchemaAt(depth),
    child_query_connections |-> cs] :
     cs \in ConnectionsOfSize(n - 1, frag, depth + 1)}

\* the lists of QueryConnections whose sink trees have n nodes in total
ConnectionsOfSize(n, frag, depth) ==
  IF n = 0 THEN {<<>>}
  ELSE UNION {
         {<<[sink_query_node |-> t, source_field_out_name |-> s,
             sink_field_out_name |-> k]>> \o rest :
            t \in NodesOfSize(m, frag, depth), s \in Names, k \in Names,
            rest \in ConnectionsOfSize(n - m, frag, depth)} : m \in 1..n}

NodeTrees ==
  UNION {NodesOfSize(n, frag, 0) : n \in 1..MaxNodes, frag \in Fragments}

RECURSIVE CountConnections(_)
RECURSIVE CountConnectionsFrom(_, _)
\* the number of child connections in a node tree
CountConnections(node) == CountConnectionsFrom(node, 1)
CountConnectionsFrom(node, i) ==
  IF i > Len(node.child_query_connections) THEN 0
  ELSE 1 + CountConnections(node.child_query_connections[i].sink_query_node)
         + CountConnectionsFrom(node, i + 1)

(***************************************************************************)
(* Plan construction.                                                      *)
(***************************************************************************)
SubQueryPlan(plan_id, query_ast, schema_id, parent_query_plan) ==
  [plan_id |-> plan_id, query_ast |-> query_ast, schema_id |-> schema_id,
   parent_query_plan |-> parent_query_plan, child_query_plans |-> <<>>]

\* a descriptor with the two names the other way round
OutputJoinDescriptorSwapped(output_names, child_query_plan) ==
  [output_names |-> <<output_names[2], output_names[1]>>,
   child_query_plan |-> child_query_plan]

OutputJoinDescriptor(output_names, child_query_plan) ==
  [output_names |-> output_names, child_query_plan |-> child_query_plan]

RECURSIVE make_query_plan_recursive(_, _, _, _)
RECURSIVE MakeQueryPlanConnections(_, _, _, _, _)

\* line 139: the plan id the loop goes on with after a child was created
NextPlanIdAfterChild(next_plan_id, st_after_child) == next_plan_id + 1

\* the loop of lines 109-154 from connection i on; st holds the arena of plans
\* built so far, the join descriptors and the exception raised, if any
MakeQueryPlanConnections(sub_query_node, sub_query_plan, st, next_plan_id, i) ==
  IF st.err /= "none" \/ i > Len(sub_query_node.child_query_connections)
  THEN st
  ELSE
    LET child_query_connection == sub_query_node.child_query_connections[i]
        child_sub_query_node == child_query_connection.sink_query_node
        parent_out_name == child_query_connection.source_field_out_name
        child_out_name == child_query_connection.sink_field_out_name
        child_query_type ==
          get_only_query_definition(child_sub_query_node.query_ast)
        r == add_filter_at_field_with_output(child_query_type, child_out_name,
                                             parent_out_name)
    IN IF r.err /= "none" THEN [st EXCEPT !.err = r.err]
       ELSE IF r.same THEN [st EXCEPT !.err = "AssertionError"]
       ELSE
         LET new_child_query_ast == Document(<<r.ast>>)
             child_sub_query_plan == Len(st.plans) + 1
             created ==
               Append(st.plans,
                      SubQueryPlan(next_plan_id, new_child_query_ast,
                                   child_sub_query_node.schema_id,
                                   Present(sub_query_plan)))
             st1 ==
               [st EXCEPT
                  !.plans =
                     [created EXCEPT ![sub_query_plan].child_query_plans =
                        Append(@, child_sub_query_plan)],
                  !.output_join_descriptors =
                     Append(@, OutputJoinDescriptor(
                                 <<parent_out_name, child_out_name>>,
                                 child_sub_query_plan))]
             st2 == make_query_plan_recursive(child_sub_query_node,
                                              child_sub_query_plan, st1,
                                              next_plan_id + 1)
         IN MakeQueryPlanConnections(sub_query_node, sub_query_plan, st2,
                                     NextPlanIdAfterChild(next_plan_id, st2),
                                     i + 1)

make_query_plan_recursive(sub_query_node, sub_query_plan, st, next_plan_id) ==
  MakeQueryPlanConnections(sub_query_node, sub_query_plan, st, next_plan_id, 1)

\* the QueryPlanDescriptor (with the arena its plans live in), or the
\* exception raised
make_query_plan(root_sub_query_node, intermediate_output_names) ==
  LET st ==
        make_query_plan_recursive(
          root_sub_query_node, 1,
          [plans |-> <<SubQueryPlan(0, root_sub_query_node.query_ast,
                                    root_sub_query_node.schema_id, Absent)>>,
           output_join_descriptors |-> <<>>, err |-> "none"],
          1)
  IN [err |-> st.err, root_sub_query_plan |-> 1, plans |-> st.plans,
      intermediate_output_names |-> intermediate_output_names,
      output_join_descriptors |-> st.output_join_descriptors]

(***************************************************************************)
(* The same construction with the objects told apart.  The heap is the     *)
(* list of the objects allocated so far and a reference is an object's     *)
(* position in it: copy() allocates, "is" compares references, and an      *)
(* assignment to an attribute or an append changes the object in place.    *)
(***************************************************************************)
\* an AST node object; directives and selection_set hold references
NodeObject(kind, n, directives, selection_set) ==
  [type |-> "Node", kind |-> kind, name |-> n, directives |-> directives,
   selection_set |-> selection_set, items |-> <<>>]

\* a Python list object
ListObject(items) ==
  [type |-> "list", kind |-> "", name |-> "", directives |-> Absent,
   selection_set |-> Absent, items |-> items]

\* SelectionSet(selections=<reference to a list>)
SelectionSetObject(selections) ==
  [type |-> "SelectionSet", kind |-> "", name |-> "", directives |-> Absent,
   selection_set |-> Absent, items |-> <<selections>>]

\* Document(definitions=[...]), the definitions being references
DocumentObject(definitions) ==
  [type |-> "Document", kind |-> "", name |-> "", directives |-> Absent,
   selection_set |-> Absent, items |-> definitions]

\* a new object on the heap and the reference to it
Allocated(heap, object) == [heap |-> Append(heap, object), ref |-> Len(heap) + 1]

\* no copy is made: the reference to the object itself
Aliased(heap, ref) == [heap |-> heap, ref |-> ref]

\* copy(x): a new object with the attributes (or the items) of x
Copied(heap, ref) == Allocated(heap, heap[ref])

RECURSIVE StoredAst(_, _)
RECURSIVE StoredSelections(_, _, _, _)
\* the objects of an AST as the parser built them, each allocated once
StoredAst(heap, ast) ==
  LET d == IF ast.directives = Absent THEN [heap |-> heap, ref |-> Absent]
           ELSE LET a == Allocated(heap, ListObject(ast.directives[1]))
                IN [heap |-> a.heap, ref |-> Present(a.ref)]
      s == IF ast.selection_set = Absent THEN [heap |-> d.heap, ref |-> Absent]
           ELSE LET sels == StoredSelections(d.heap, ast.selection_set[1], 1,
                                             <<>>)
                    l == Allocated(sels.heap, ListObject(sels.refs))
                    a == Allocated(l.heap, SelectionSetObject(l.ref))
                IN [heap |-> a.heap, ref |-> Present(a.ref)]
  IN Allocated(s.heap, NodeObject(ast.kind, ast.name, d.ref, s.ref))

StoredSelections(heap, selections, i, refs) ==
  IF i > Len(selections) THEN [heap |-> heap, refs |-> refs]
  ELSE LET a == StoredAst(heap, selections[i])
       IN StoredSelections(a.heap, selections, i + 1, Append(refs, a.ref))

\* a document with its only definition
StoredDocument(heap, document) ==
  LET a == StoredAst(heap, get_only_query_definition(document))
  IN Allocated(a.heap, DocumentObject(<<a.ref>>))

RECURSIVE AstAt(_, _)
\* the AST a reference stands for, read off the heap
AstAt(heap, ref) ==
  LET o == heap[ref]
  IN [kind |-> o.kind, name |-> o.name,
      directives |-> IF o.directives = Absent THEN Absent
                     ELSE Present(heap[o.directives[1]].items),
      selection_set |->
        IF o.selection_set = Absent THEN Absent
        ELSE LET refs == heap[heap[o.selection_set[1]].items[1]].items
             IN Present([i \in 1..Len(refs) |-> AstAt(heap, refs[i])])]

DocumentAt(heap, ref) ==
  Document([i \in 1..Len(heap[ref].items) |-> AstAt(heap, heap[ref].items[i])])

RECURSIVE AddFilterAtFieldOnHeap(_, _, _, _)
RECURSIVE AddFilterSelectionsOnHeap(_, _, _, _, _, _, _)

\* the loop of lines 199-223 from selection i on: [err, heap, ref]
AddFilterSelectionsOnHeap(heap, ast, field_out_name, input_filter_name, i, made_changes, new_selections) ==
  LET selections == heap[heap[heap[ast].selection_set[1]].items[1]].items IN
  IF i > Len(selections)
  THEN IF made_changes
       THEN LET new_ast == Copied(heap, ast)
                l == Allocated(new_ast.heap, ListObject(new_selections))
                s == Allocated(l.heap, SelectionSetObject(l.ref))
            IN [err |-> "none",
                heap |-> [s.heap EXCEPT
                            ![new_ast.ref].selection_set = Present(s.ref)],
                ref |-> new_ast.ref]
       ELSE [err |-> "none", heap |-> heap, ref |-> ast]
  ELSE LET r == AddFilterAtFieldOnHeap(heap, selections[i], field_out_name,
                                       input_filter_name)
       IN IF r.err /= "none"
          THEN [err |-> r.err, heap |-> r.heap, ref |-> ast]
          ELSE IF r.ref /= selections[i] /\ made_changes
          THEN [err |-> "GraphQLValidationError", heap |-> r.heap, ref |-> ast]
          ELSE AddFilterSelectionsOnHeap(
                 r.heap, ast, field_out_name, input_filter_name, i + 1,
                 made_changes \/ r.ref /= selections[i],
                 Append(new_selections, r.ref))

\* _add_filter_at_field_with_output on the object ast: [err, heap, ref]
AddFilterAtFieldOnHeap(heap, ast, field_out_name, input_filter_name) ==
  LET node == heap[ast] IN
  IF node.kind \notin {"Field", "InlineFragment", "OperationDefinition"}
  THEN [err |-> "AssertionError", heap |-> heap, ref |-> ast]
  ELSE IF /\ node.kind = "Field"
          /\ node.directives /= Absent
          /\ \E i \in 1..Len(heap[node.directives[1]].items) :
                is_output_directive_with_name(
                  heap[node.directives[1]].items[i], field_out_name)
  THEN LET new_directives == Copied(heap, node.directives[1])
           appended ==
             [new_directives.heap EXCEPT
                ![new_directives.ref].items =
                   Append(@, get_in_collection_filter_directive(
                               input_filter_name))]
           new_ast == Copied(appended, ast)
       IN [err |-> "none",
           heap |-> [new_ast.heap EXCEPT
                       ![new_ast.ref].directives = Present(new_directives.ref)],
           ref |-> new_ast.ref]
  ELSE IF node.selection_set = Absent
  THEN [err |-> "none", heap |-> heap, ref |-> ast]
  ELSE AddFilterSelectionsOnHeap(heap, ast, field_out_name, input_filter_name,
                                 1, FALSE, <<>>)

\* what became of one node's fragment: the heap of its objects afterwards,
\* the number of objects the input fragment consists of, the reference to the
\* node's document, the reference to the plan's document (Absent when no plan
\* was created) and the exception raised on it
Tracked(objects, input_objects, query_ast, plan_ast, err) ==
  [objects |-> objects, input_objects |-> input_objects,
   query_ast |-> query_ast, plan_ast |-> plan_ast, err |-> err]

RECURSIVE MakeQueryPlanConnectionsOnHeap(_, _, _)
\* the loop of lines 109-154 with the objects tracked: st holds one Tracked
\* record per node visited so far, in the order of the visits, and the
\* exception raised.  The objects of different fragments are different
\* objects, so every fragment has a heap of its own.
MakeQueryPlanConnectionsOnHeap(sub_query_node, st, i) ==
  IF st.err /= "none" \/ i > Len(sub_query_node.child_query_connections)
  THEN st
  ELSE
    LET child_query_connection == sub_query_node.child_query_connections[i]
        child_sub_query_node == child_query_connection.sink_query_node
        stored == StoredDocument(<<>>, child_sub_query_node.query_ast)
        child_query_type == stored.heap[stored.ref].items[1]
        r == AddFilterAtFieldOnHeap(
               stored.heap, child_query_type,
               child_query_connection.sink_field_out_name,
               child_query_connection.source_field_out_name)
        Failed(e) ==
          [tracked |-> Append(st.tracked,
                              Tracked(r.heap, Len(stored.heap), stored.ref,
                                      Absent, e)),
           err |-> e]
    IN IF r.err /= "none" THEN Failed(r.err)
       ELSE IF child_query_type = r.ref THEN Failed("AssertionError")
       ELSE
         LET new_child_query_ast ==
               Allocated(r.heap, DocumentObject(<<r.ref>>))
             st1 == [st EXCEPT
                       !.tracked =
                          Append(@, Tracked(new_child_query_ast.heap,
                                            Len(stored.heap), stored.ref,
                                            Present(new_child_query_ast.ref),
                                            "none"))]
             st2 == MakeQueryPlanConnectionsOnHeap(child_sub_query_node, st1, 1)
         IN MakeQueryPlanConnectionsOnHeap(sub_query_node, st2, i + 1)

\* make_query_plan with the objects tracked; the root plan holds the root
\* node's own document (line 76)
MakeQueryPlanOnHeap(root_sub_query_node) ==
  LET stored == StoredDocument(<<>>, root_sub_query_node.query_ast)
  IN MakeQueryPlanConnectionsOnHeap(
       root_sub_query_node,
       [tracked |-> <<Tracked(stored.heap, Len(stored.heap), stored.ref,
                              Present(stored.ref), "none")>>,
        err |-> "none"],
       1)

(***************************************************************************)
(* Helpers of the execution.                                               *)
(***************************************************************************)
\* a dict with no keys
EmptyDict == [k \in {} |-> 0]

\* dict.get(key, default)
DictGet(d, key, default) == IF key \in DOMAIN d THEN d[key] ELSE default

\* the runtime parameters named by a directive's "value" argument
DirectiveRuntimeArguments(directive) ==
  IF directive.name = "filter"
  THEN {directive.arguments[2].value[i][2] :
          i \in {j \in 1..Len(directive.arguments[2].value) :
                   directive.arguments[2].value[j][1] = "$"}}
  ELSE {}

RECURSIVE AstRuntimeArguments(_)
AstRuntimeArguments(ast) ==
  (IF ast.directives = Absent THEN {}
   ELSE UNION {DirectiveRuntimeArguments(ast.directives[1][i]) :
                 i \in 1..Len(ast.directives[1])})
  \cup
  (IF ast.selection_set = Absent THEN {}
   ELSE UNION {AstRuntimeArguments(ast.selection_set[1][i]) :
                 i \in 1..Len(ast.selection_set[1])})

\* utils.get_query_runtime_arguments: the names of the runtime arguments the
\* query requires
get_query_runtime_arguments(query_ast) ==
  UNION {AstRuntimeArguments(query_ast.definitions[i]) :
           i \in 1..Len(query_ast.definitions)}

RECURSIVE get_plan_and_depth_in_dfs_order_helper(_, _, _)
RECURSIVE PlanAndDepthOfChildren(_, _, _, _)
PlanAndDepthOfChildren(plans, query_plan, depth, i) ==
  IF i > Len(plans[query_plan].child_query_plans) THEN <<>>
  ELSE get_plan_and_depth_in_dfs_order_helper(
         plans, plans[query_plan].child_query_plans[i], depth + 1)
       \o PlanAndDepthOfChildren(plans, query_plan, depth, i + 1)

get_plan_and_depth_in_dfs_order_helper(plans, query_plan, depth) ==
  <<<<query_plan, depth>>>> \o PlanAndDepthOfChildren(plans, query_plan, depth, 1)

get_plan_and_depth_in_dfs_order(plans, query_plan) ==
  get_plan_and_depth_in_dfs_order_helper(plans, query_plan, 0)

RECURSIVE StitchingOutputNames(_, _, _)
\* lines 305-309: for each parent plan id, the output_names of the join
\* descriptors whose child's parent has that id, in descriptor order
StitchingOutputNames(descriptor, i, acc) ==
  IF i > Len(descriptor.output_join_descriptors) THEN acc
  ELSE
    LET join_descriptor == descriptor.output_join_descriptors[i]
        parent ==
          descriptor.plans[join_descriptor.child_query_plan].parent_query_plan[1]
        parent_plan_id == descriptor.plans[parent].plan_id
    IN StitchingOutputNames(
         descriptor, i + 1,
         (parent_plan_id :>
            Append(DictGet(acc, parent_plan_id, <<>>),
                   join_descriptor.output_names)) @@ acc)

\* lines 342-347
ChildExtraOutputNames(stitching, plan_id) ==
  LET pairs == DictGet(stitching, plan_id, <<>>)
  IN {pairs[i][1] : i \in 1..Len(pairs)}

\* a loop that keeps None like any other value
KeepsEveryOutputValue(output_value) == TRUE

\* lines 354-360 keep a value unless it is None
KeepsOutputValue(output_value) == output_value /= None

\* lines 348-360: per stitching output name, the set of the values the rows
\* carry under it
ChildExtraOutputValues(subquery_result, child_extra_output_names) ==
  [output_name \in child_extra_output_names |->
     {v \in {DictGet(subquery_result[i], output_name, None) :
               i \in 1..Len(subquery_result)} : KeepsOutputValue(v)}]

\* lists of values of the set, some of them missing or repeated
ListsWithin(S) == UNION {[1..n -> S] : n \in 0..Cardinality(S)}

\* list(a_set): the values of the set, once each, in the set's iteration order
ListsOfSet(S) ==
  {l \in [1..Cardinality(S) -> S] :
     \A i, j \in 1..Cardinality(S) : i /= j => l[i] /= l[j]}

\* lines 363-367: the dicts new_query_args may be
NewQueryArgs(child_extra_output_values) ==
  {f \in [DOMAIN child_extra_output_values ->
            UNION {ListsOfSet(child_extra_output_values[n]) :
                     n \in DOMAIN child_extra_output_values}] :
     \A n \in DOMAIN f : f[n] \in ListsOfSet(child_extra_output_values[n])}

\* an update in which the entries the pool already holds win
UpdatedQueryArgsKeepingOld(full, new_query_args) == full @@ new_query_args

\* line 368: full_query_args.update(new_query_args)
UpdatedQueryArgs(full, new_query_args) == new_query_args @@ full

\* the whole pool handed to the executor
WholePool(needed, full) == full

\* lines 327-330: the arguments handed to the executor
SubqueryArgs(needed, full) == [argument_name \in needed |-> full[argument_name]]

(***************************************************************************)
(* The join.  A row index is the row's position in the list, from 1.       *)
(***************************************************************************)
\* lines 410-412: a row enters the index under its value of the join column
IndexedUnder(join_value, key) == join_value = key

\* [err, index]: the dict from each value of the join column to the list of
\* the rows that carry it; KeyError when a row lacks the column
make_join_index_for_output(results, join_output_name) ==
  IF \E i \in 1..Len(results) : join_output_name \notin DOMAIN results[i]
  THEN [err |-> "KeyError", index |-> EmptyDict]
  ELSE
    [err |-> "none",
     index |->
       [key \in {results[i][join_output_name] : i \in 1..Len(results)} |->
          LET Matches(i) == IndexedUnder(results[i][join_output_name], key)
          IN SelectSeq([i \in 1..Len(results) |-> i], Matches)]]

RECURSIVE MakeJoinIndexesFrom(_, _, _, _)
MakeJoinIndexesFrom(descriptor, result_components, i, join_indexes) ==
  IF i > Len(descriptor.output_join_descriptors)
  THEN [err |-> "none", indexes |-> join_indexes]
  ELSE
    LET join_descriptor == descriptor.output_join_descriptors[i]
        child_plan_id ==
          descriptor.plans[join_descriptor.child_query_plan].plan_id
        child_output_name == join_descriptor.output_names[2]
        made == make_join_index_for_output(result_components[child_plan_id],
                                           child_output_name)
    IN IF child_plan_id \in DOMAIN join_indexes
       THEN [err |-> "AssertionError", indexes |-> join_indexes]
       ELSE IF made.err /= "none"
       THEN [err |-> made.err, indexes |-> join_indexes]
       ELSE MakeJoinIndexesFrom(descriptor, result_components, i + 1,
                                (child_plan_id :> made.index) @@ join_indexes)

make_join_indexes(descriptor, result_components) ==
  MakeJoinIndexesFrom(descriptor, result_components, 1, EmptyDict)

\* a merge in which the stream row's fields win
MergedRowParentWins(current_row, joining_row) == current_row @@ joining_row

\* line 442: dict(current_row, **joining_row)
MergedRow(current_row, joining_row) == joining_row @@ current_row

\* lines 435-442 for one row of the stream
JoinedRowsOf(current_row, join_from_key, join_index, joining_results) ==
  LET matched == DictGet(join_index, current_row[join_from_key], <<>>)
  IN [k \in 1..Len(matched) |->
        MergedRow(current_row, joining_results[matched[k]])]

RECURSIVE NextResults(_, _, _, _, _)
\* the loop of lines 434-442 from row i of the stream on
NextResults(current_results, i, join_from_key, join_index, joining_results) ==
  IF i > Len(current_results) THEN <<>>
  ELSE JoinedRowsOf(current_results[i], join_from_key, join_index,
                    joining_results)
       \o NextResults(current_results, i + 1, join_from_key, join_index,
                      joining_results)

RECURSIVE join_results(_, _, _, _, _)
\* [err, rows]: join_descriptors is the list of descriptors left to apply
join_results(plans, result_components, join_indexes, current_results, join_descriptors) ==
  IF Len(join_descriptors) = 0
  THEN [err |-> "none", rows |-> current_results]
  ELSE
    LET next_join_descriptor == join_descriptors[1]
        remaining_join_descriptors == Tail(join_descriptors)
        join_plan_id == plans[next_join_descriptor.child_query_plan].plan_id
        join_index == join_indexes[join_plan_id]
        joining_results == result_components[join_plan_id]
        join_from_key == next_join_descriptor.output_names[1]
    IN IF \E i \in 1..Len(current_results) :
            join_from_key \notin DOMAIN current_results[i]
       THEN [err |-> "KeyError", rows |-> <<>>]
       ELSE join_results(plans, result_components, join_indexes,
                         NextResults(current_results, 1, join_from_key,
                                     join_index, joining_results),
                         remaining_join_descriptors)

\* a row left as it is
AllColumns(row, columns_to_drop) == row

\* lines 453-457 for one row
WithoutColumns(row, columns_to_drop) ==
  [key \in DOMAIN row \ columns_to_drop |-> row[key]]

drop_intermediate_outputs(columns_to_drop, results) ==
  [i \in 1..Len(results) |-> WithoutColumns(results[i], columns_to_drop)]

\* lines 373-382: [err, rows], what execute_query_plan returns or raises once
\* every sub-query has run
JoinedAndProjected(descriptor, result_components) ==
  LET made == make_join_indexes(descriptor, result_components)
      joined ==
        join_results(
          descriptor.plans, result_components, made.indexes,
          result_components[
            descriptor.plans[descriptor.root_sub_query_plan].plan_id],
          descriptor.output_join_descriptors)
  IN IF made.err /= "none" THEN [err |-> made.err, rows |-> <<>>]
     ELSE IF joined.err /= "none" THEN [err |-> joined.err, rows |-> <<>>]
     ELSE [err |-> "none",
           rows |-> drop_intermediate_outputs(
                      descriptor.intermediate_output_names, joined.rows)]

(***************************************************************************)
(* The state.                                                              *)
(***************************************************************************)
VARIABLES
  pc,                     \* where the caller is: "start", "planned",
                          \* "build_failed", "executing", "done", "failed"
  root_sub_query_node,    \* the node tree make_query_plan was called with
  query_plan_descriptor,  \* what make_query_plan returned
  full_query_args,        \* the argument pool of execute_query_plan
  stitching_output_names_by_parent_plan_id,
  plan_and_depth,         \* the plans, in the order the loop visits them
  position,               \* the loop's position in plan_and_depth
  result_components_by_plan_id,
  calls,                  \* history: the executor calls made so far
  raised,                 \* the exception that ended the call, or "none"
  returned,               \* what execute_query_plan returned, if it did
  heap,                   \* the objects of the ASTs, where they are tracked
  previous                \* the invocation of execute_query_plan before this
                          \* one, where there was one

vars == <<pc, root_sub_query_node, query_plan_descriptor, full_query_args,
          stitching_output_names_by_parent_plan_id, plan_and_depth, position,
          result_components_by_plan_id, calls, raised, returned, heap,
          previous>>

exec_vars == <<full_query_args, stitching_output_names_by_parent_plan_id,
               plan_and_depth, position, result_components_by_plan_id, calls,
               returned>>

\* no descriptor yet
NoDescriptor ==
  [err |-> "unbuilt", root_sub_query_plan |-> 1, plans |-> <<>>,
   intermediate_output_names |-> {}, output_join_descriptors |-> <<>>]

\* no object is tracked
NoHeap == [tracked |-> <<>>, err |-> "unbuilt"]

\* the rows an executor may return: every output name mapped to None or a value
Rows == [Names -> {None} \cup Values]
RowLists(k) == UNION {[1..n -> Rows] : n \in 0..k}

\* the sets of intermediate output names a caller may pass
IntermediateOutputNames == {{}, {"a"}}

\* the initial arguments a caller may pass
QueryArgs == {EmptyDict, "a" :> <<1>>}

RECURSIVE RowsReturnedUpTo(_, _)
\* the rows the first i executor calls returned, in total
RowsReturnedUpTo(log, i) ==
  IF i = 0 THEN 0
  ELSE RowsReturnedUpTo(log, i - 1)
       + (IF log[i].result = Absent THEN 0 ELSE Len(log[i].result[1]))

\* the rows the next executor call may return within MaxWork
RowBudget ==
  LET left == MaxWork - Len(query_plan_descriptor.plans)
              - RowsReturnedUpTo(calls, Len(calls))
  IN IF left < 0 THEN 0 ELSE IF left > MaxRows THEN MaxRows ELSE left

Init ==
  /\ pc = "start"
  /\ root_sub_query_node = Absent
  /\ query_plan_descriptor = NoDescriptor
  /\ full_query_args = EmptyDict
  /\ stitching_output_names_by_parent_plan_id = EmptyDict
  /\ plan_and_depth = <<>>
  /\ position = 0
  /\ result_components_by_plan_id = EmptyDict
  /\ calls = <<>>
  /\ raised = "none"
  /\ returned = Absent
  /\ heap = NoHeap
  /\ previous = Absent

(***************************************************************************)
(* The operations.                                                         *)
(***************************************************************************)
\* make_query_plan(root_sub_query_node, intermediate_output_names)
MakeQueryPlan ==
  /\ pc = "start"
  /\ \E node \in NodeTrees, intermediate_output_names \in IntermediateOutputNames :
       LET made == make_query_plan(node, intermediate_output_names)
       IN /\ root_sub_query_node' = Present(node)
          /\ IF made.err = "none"
             THEN /\ pc' = "planned"
                  /\ query_plan_descriptor' = made
                  /\ raised' = "none"
             ELSE /\ pc' = "build_failed"
                  /\ query_plan_descriptor' = NoDescriptor
                  /\ raised' = made.err
  /\ UNCHANGED <<exec_vars, heap, previous>>

\* make_query_plan with the objects of the ASTs tracked on the heap
MakeQueryPlanTrackingObjects ==
  /\ pc = "start"
  /\ \E node \in NodeTrees, intermediate_output_names \in IntermediateOutputNames :
       LET made == make_query_plan(node, intermediate_output_names)
       IN /\ root_sub_query_node' = Present(node)
          /\ heap' = MakeQueryPlanOnHeap(node)
          /\ IF made.err = "none"
             THEN /\ pc' = "planned"
                  /\ query_plan_descriptor' = made
                  /\ raised' = "none"
             ELSE /\ pc' = "build_failed"
                  /\ query_plan_descriptor' = NoDescriptor
                  /\ raised' = made.err
  /\ UNCHANGED <<exec_vars, previous>>

\* execute_query_plan, lines 303-313: up to the loop
ExecuteStart ==
  /\ pc = "planned"
  /\ \E query_args \in QueryArgs : full_query_args' = query_args
  /\ stitching_output_names_by_parent_plan_id' =
       StitchingOutputNames(query_plan_descriptor, 1, EmptyDict)
  /\ plan_and_depth' =
       get_plan_and_depth_in_dfs_order(query_plan_descriptor.plans,
                                       query_plan_descriptor.root_sub_query_plan)
  /\ position' = 1
  /\ result_components_by_plan_id' = EmptyDict
  /\ pc' = "executing"
  /\ UNCHANGED <<root_sub_query_node, query_plan_descriptor, calls, raised,
                 returned, heap, previous>>

\* a loop that does not advance
SamePosition(p) == p

\* the loop's next position after an iteration
NextPosition(p) == p + 1

\* line 337: the result is stored under the plan's id
StoredResults(result_components, plan_id, subquery_result) ==
  (plan_id :> subquery_result) @@ result_components

\* a loop that goes on after the executor raised
PcStillExecuting(result) == "executing"

\* line 336: an exception raised by the executor leaves execute_query_plan
PcAfterCall(result) == IF result = Absent THEN "failed" ELSE "executing"

\* the executor calls of both invocations
AllCalls ==
  {calls[i] : i \in 1..Len(calls)}
  \cup (IF previous = Absent THEN {}
        ELSE {previous[1].calls[i] : i \in 1..Len(previous[1].calls)})

\* the calls so far that ran the same query text on the same schema with the
\* same arguments
SameCalls(query_plan, subquery_args) ==
  {c \in AllCalls :
     /\ query_plan_descriptor.plans[c.plan].schema_id
          = query_plan_descriptor.plans[query_plan].schema_id
     /\ query_plan_descriptor.plans[c.plan].query_ast
          = query_plan_descriptor.plans[query_plan].query_ast
     /\ c.subquery_args = subquery_args}

\* line 336: what execution_func may do: raise (Absent) or return rows.  When
\* execute_query_plan is invoked once more, the executors do what they did on
\* the same query and arguments before.
ExecutorResults(query_plan, subquery_args) ==
  IF previous = Absent \/ SameCalls(query_plan, subquery_args) = {}
  THEN {Absent} \cup {Present(rows) : rows \in RowLists(RowBudget)}
  ELSE {c.result : c \in SameCalls(query_plan, subquery_args)}

\* execute_query_plan, lines 315-371: one iteration of the loop, around one
\* executor call.  result is what the executor does: Absent when it raises,
\* otherwise the rows it returns.  Each call is logged with the plan object
\* it ran, the pool as it was, the arguments passed and the result.
ExecuteSubQuery ==
  /\ pc = "executing"
  /\ position <= Len(plan_and_depth)
  /\ LET query_plan == plan_and_depth[position][1]
         plan_id == query_plan_descriptor.plans[query_plan].plan_id
         needed ==
           get_query_runtime_arguments(
             query_plan_descriptor.plans[query_plan].query_ast)
     IN IF ~(needed \subseteq DOMAIN full_query_args)
        THEN /\ pc' = "failed"
             /\ raised' = "KeyError"
             /\ UNCHANGED exec_vars
        ELSE
          LET subquery_args == SubqueryArgs(needed, full_query_args)
          IN \E result \in ExecutorResults(query_plan, subquery_args) :
               /\ calls' = Append(calls, [plan |-> query_plan,
                                          pool |-> full_query_args,
                                          subquery_args |-> subquery_args,
                                          result |-> result])
               /\ pc' = PcAfterCall(result)
               /\ IF result = Absent
                  THEN /\ raised' = "ExecutorError"
                       /\ UNCHANGED <<full_query_args, position,
                                      result_components_by_plan_id>>
                  ELSE
                    /\ result_components_by_plan_id' =
                         StoredResults(result_components_by_plan_id, plan_id,
                                       result[1])
                    /\ \E new_query_args \in
                           NewQueryArgs(ChildExtraOutputValues(
                             result[1],
                             ChildExtraOutputNames(
                               stitching_output_names_by_parent_plan_id,
                               plan_id))) :
                         full_query_args' =
                           UpdatedQueryArgs(full_query_args, new_query_args)
                    /\ position' = NextPosition(position)
                    /\ UNCHANGED raised
               /\ UNCHANGED <<stitching_output_names_by_parent_plan_id,
                              plan_and_depth, returned>>
  /\ UNCHANGED <<root_sub_query_node, query_plan_descriptor, heap, previous>>

\* execute_query_plan, lines 373-382: the join and the projection
JoinAndReturn ==
  /\ pc = "executing"
  /\ position > Len(plan_and_depth)
  /\ LET out == JoinedAndProjected(query_plan_descriptor,
                                   result_components_by_plan_id)
     IN IF out.err = "none"
        THEN /\ pc' = "done"
             /\ returned' = Present(out.rows)
             /\ raised' = "none"
        ELSE /\ pc' = "failed"
             /\ returned' = Absent
             /\ raised' = out.err
  /\ UNCHANGED <<root_sub_query_node, query_plan_descriptor, full_query_args,
                 stitching_output_names_by_parent_plan_id, plan_and_depth,
                 position, result_components_by_plan_id, calls, heap,
                 previous>>

Next == MakeQueryPlan \/ ExecuteStart \/ ExecuteSubQuery \/ JoinAndReturn

Spec == Init /\ [][Next]_vars

\* the node trees of at most MaxRepeatNodes nodes that make_query_plan
\* accepts
RepeatTrees ==
  {t \in UNION {NodesOfSize(n, frag, 0) :
                  n \in 1..MaxRepeatNodes, frag \in {FragPlain, FragFiltered}} :
     make_query_plan(t, {}).err = "none"}

\* make_query_plan has returned a plan
InitRepeat ==
  /\ pc = "planned"
  /\ \E node \in RepeatTrees, intermediate_output_names \in IntermediateOutputNames :
       /\ root_sub_query_node = Present(node)
       /\ query_plan_descriptor =
            make_query_plan(node, intermediate_output_names)
  /\ full_query_args = EmptyDict
  /\ stitching_output_names_by_parent_plan_id = EmptyDict
  /\ plan_and_depth = <<>>
  /\ position = 0
  /\ result_components_by_plan_id = EmptyDict
  /\ calls = <<>>
  /\ raised = "none"
  /\ returned = Absent
  /\ heap = NoHeap
  /\ previous = Absent

\* line 335-336: a schema's execution_func is a function of the query text
\* and the arguments: equal inputs give equal results
ExecutorIsAFunction ==
  \A c1, c2 \in AllCalls :
     (/\ query_plan_descriptor.plans[c1.plan].schema_id
           = query_plan_descriptor.plans[c2.plan].schema_id
      /\ query_plan_descriptor.plans[c1.plan].query_ast
           = query_plan_descriptor.plans[c2.plan].query_ast
      /\ c1.subquery_args = c2.subquery_args)
     => c1.result = c2.result

\* the arguments the invocation was started with
InitialQueryArgs == IF calls = <<>> THEN full_query_args ELSE calls[1].pool

\* execute_query_plan is invoked once more, with the same descriptor and the
\* same query_args (lines 303-313)
ExecuteAgain ==
  /\ pc \in {"done", "failed"}
  /\ previous = Absent
  /\ previous' = Present([calls |-> calls, returned |-> returned,
                          raised |-> raised, pc |-> pc])
  /\ full_query_args' = InitialQueryArgs
  /\ stitching_output_names_by_parent_plan_id' =
       StitchingOutputNames(query_plan_descriptor, 1, EmptyDict)
  /\ plan_and_depth' =
       get_plan_and_depth_in_dfs_order(query_plan_descriptor.plans,
                                       query_plan_descriptor.root_sub_query_plan)
  /\ position' = 1
  /\ result_components_by_plan_id' = EmptyDict
  /\ calls' = <<>>
  /\ raised' = "none"
  /\ returned' = Absent
  /\ pc' = "executing"
  /\ UNCHANGED <<root_sub_query_node, query_plan_descriptor, heap>>

NextRepeat ==
  ExecuteStart \/ ExecuteSubQuery \/ JoinAndReturn \/ ExecuteAgain

\* two invocations of execute_query_plan on one plan
SpecRepeat == InitRepeat /\ [][NextRepeat]_vars

\* the construction alone, with object identity tracked
NextBuild == MakeQueryPlanTrackingObjects

SpecBuild == Init /\ [][NextBuild]_vars

(***************************************************************************)
(* Properties.                                                             *)
(***************************************************************************)
\* the plans of the descriptor and the plan ids they carry
Plans == query_plan_descriptor.plans
PlanIds == {Plans[h].plan_id : h \in 1..Len(Plans)}

\* the position in the call log of the call that ran plan object h (0: none)
CallOf(h) ==
  IF \E i \in 1..Len(calls) : calls[i].plan = h
  THEN CHOOSE i \in 1..Len(calls) : calls[i].plan = h
  ELSE 0

\* the join descriptor that joins plan object h to its parent
DescriptorOf(h) ==
  CHOOSE d \in {query_plan_descriptor.output_join_descriptors[i] :
                  i \in 1..Len(query_plan_descriptor.output_join_descriptors)} :
    d.child_query_plan = h

\* the distinct values other than None that rows carry under a name
DistinctNonNull(rows, name) ==
  {rows[i][name] : i \in {j \in 1..Len(rows) : name \in DOMAIN rows[j]}}
    \ {None}

\* the elements of a list
Elements(list) == {list[i] : i \in 1..Len(list)}

\* C1: for a node tree with N child connections make_query_plan returns a
\* plan tree of N + 1 plans whose plan ids are pairwise distinct, are exactly
\* 0..N, with the root's id 0, and grow along the preorder of the plan tree.
C1_PlanIdsDistinctInPreorder ==
  pc = "planned" =>
    LET N == CountConnections(root_sub_query_node[1])
        order == get_plan_and_depth_in_dfs_order(
                   Plans, query_plan_descriptor.root_sub_query_plan)
    IN /\ Len(Plans) = N + 1
       /\ \A g, h \in 1..Len(Plans) :
            g /= h => Plans[g].plan_id /= Plans[h].plan_id
       /\ PlanIds = 0..N
       /\ Plans[query_plan_descriptor.root_sub_query_plan].plan_id = 0
       /\ \A p, q \in 1..Len(order) :
            p < q => Plans[order[p][1]].plan_id < Plans[order[q][1]].plan_id

\* C2: while a plan returned by make_query_plan executes, the duplicate plan
\* id check of _make_join_indexes never fires (execute_query_plan never ends
\* in its AssertionError), no two join descriptors name child plans of the
\* same plan id, and the result set stored under a plan's id is the one that
\* plan's own executor call returned.
C2_DuplicateCheckUnreachable ==
  pc \in {"executing", "done", "failed"} =>
    /\ raised /= "AssertionError"
    /\ \A i, j \in 1..Len(query_plan_descriptor.output_join_descriptors) :
         i /= j =>
           Plans[query_plan_descriptor.output_join_descriptors[i]
                   .child_query_plan].plan_id
           /= Plans[query_plan_descriptor.output_join_descriptors[j]
                      .child_query_plan].plan_id
    /\ \A i \in 1..Len(calls) :
         calls[i].result /= Absent =>
           result_components_by_plan_id[Plans[calls[i].plan].plan_id]
             = calls[i].result[1]

\* call i ran a plan that has a parent
NonRootCall(i) == Plans[calls[i].plan].parent_query_plan /= Absent
\* the call that ran the parent of the plan of call i, and the name that plan's
\* injected filter is bound to
ParentCallOf(i) == CallOf(Plans[calls[i].plan].parent_query_plan[1])
BoundNameOf(i) == DescriptorOf(calls[i].plan).output_names[1]

\* call k returned rows and then wrote the pool's entry of the name
Propagates(k, name) ==
  /\ calls[k].result /= Absent
  /\ name \in ChildExtraOutputNames(stitching_output_names_by_parent_plan_id,
                                    Plans[calls[k].plan].plan_id)

\* the last call before call i that wrote the pool's entry of the name
LastWriterBefore(i, name) ==
  CHOOSE k \in 1..(i - 1) :
    /\ Propagates(k, name)
    /\ \A m \in (k + 1)..(i - 1) : ~Propagates(m, name)

\* the join descriptors whose child's parent is plan object h
SourceNamesOf(h) ==
  {query_plan_descriptor.output_join_descriptors[i].output_names[1] :
     i \in {j \in 1..Len(query_plan_descriptor.output_join_descriptors) :
              Plans[query_plan_descriptor.output_join_descriptors[j]
                      .child_query_plan].parent_query_plan = Present(h)}}

\* connections declared by different nodes never share a source name
SourceNamesDifferAcrossParents ==
  \A g, h \in 1..Len(Plans) :
    g /= h => SourceNamesOf(g) \cap SourceNamesOf(h) = {}

C4_ChildGetsDistinctNonNullValues ==
  (Len(Plans) = 2 /\ Len(calls) = 2) =>
    LET name == query_plan_descriptor.output_join_descriptors[1].output_names[1]
        root_rows == calls[1].result[1]
        passed == calls[2].subquery_args
    IN /\ calls[1].plan = 1 /\ calls[2].plan = 2
       /\ name \in get_query_runtime_arguments(Plans[2].query_ast)
       /\ name \in DOMAIN passed
       /\ Elements(passed[name]) =
            {v \in Values : \E r \in 1..Len(root_rows) : root_rows[r][name] = v}
       /\ None \notin Elements(passed[name])
       /\ Cardinality(Elements(passed[name])) = Len(passed[name])

\* the root returned the same value in two rows; the child got it once
C4_Witness ==
  /\ Len(Plans) = 2 /\ Len(calls) = 2
  /\ LET name == query_plan_descriptor.output_join_descriptors[1].output_names[1]
     IN /\ Len(calls[1].result[1]) = 2
        /\ calls[1].result[1][1][name] = 2
        /\ calls[1].result[1][2][name] = 2
        /\ calls[2].subquery_args[name] = <<2>>

RECURSIVE IsAncestor(_, _)
\* plan object g is a proper ancestor of plan object h
IsAncestor(g, h) ==
  /\ Plans[h].parent_query_plan /= Absent
  /\ \/ Plans[h].parent_query_plan[1] = g
     \/ IsAncestor(g, Plans[h].parent_query_plan[1])

\* C5: executors are called one at a time in preorder of the plan tree: no
\* plan is called twice; when a plan is called every ancestor's call has
\* returned and what it propagates is in the pool; a later child of a node is
\* called only after each earlier child and all of that child's descendants;
\* and once the loop is over every plan has been called exactly once.
C5_CallsInStrictPreorder ==
  /\ \A i, j \in 1..Len(calls) : i /= j => calls[i].plan /= calls[j].plan
  /\ \A i \in 1..Len(calls) : \A g \in 1..Len(Plans) :
       IsAncestor(g, calls[i].plan) =>
         /\ CallOf(g) \in 1..(i - 1)
         /\ calls[CallOf(g)].result /= Absent
         /\ ChildExtraOutputNames(stitching_output_names_by_parent_plan_id,
                                  Plans[g].plan_id) \subseteq DOMAIN calls[i].pool
  /\ \A p \in 1..Len(Plans) : \A u, v \in 1..Len(Plans[p].child_query_plans) :
       (u < v /\ CallOf(Plans[p].child_query_plans[v]) > 0) =>
         \A d \in 1..Len(Plans) :
           (d = Plans[p].child_query_plans[u]
              \/ IsAncestor(Plans[p].child_query_plans[u], d)) =>
             CallOf(d) \in 1..(CallOf(Plans[p].child_query_plans[v]) - 1)
  /\ (pc \in {"executing", "done", "failed"}
        /\ position > Len(plan_and_depth)) =>
       /\ Len(calls) = Len(Plans)
       /\ {calls[i].plan : i \in 1..Len(calls)} = 1..Len(Plans)

\* every sub-query of a plan whose root has two children, the first of them
\* with a child of its own, has run
C5_Witness ==
  /\ pc = "executing"
  /\ position > Len(plan_and_depth)
  /\ Len(Plans) = 4
  /\ Len(Plans[1].child_query_plans) = 2
  /\ Len(Plans[Plans[1].child_query_plans[1]].child_query_plans) = 1
  /\ Len(calls) = 4

\* the rows the call of plan object h returned
RowsOf(h) == calls[CallOf(h)].result[1]

\* the field-wise union of two rows, the second one's fields winning
UnionChildWins(row, child_row) ==
  [k \in DOMAIN row \cup DOMAIN child_row |->
     IF k \in DOMAIN child_row THEN child_row[k] ELSE row[k]]

RECURSIVE Concatenated(_, _)
\* the lists of a list of lists, one after the other, from list i on
Concatenated(lists, i) ==
  IF i > Len(lists) THEN <<>> ELSE lists[i] \o Concatenated(lists, i + 1)

\* a nested-loop inner join of a stream with child rows: stream rows outside,
\* child rows inside; nulls_match tells whether None equals None as a key
NestedLoopJoin(stream, child_rows, from, to, nulls_match) ==
  Concatenated(
    [i \in 1..Len(stream) |->
       LET Joins(child_row) ==
             /\ child_row[to] = stream[i][from]
             /\ (nulls_match \/ stream[i][from] /= None)
           matched == SelectSeq(child_rows, Joins)
       IN [k \in 1..Len(matched) |-> UnionChildWins(stream[i], matched[k])]],
    1)

RECURSIVE SequentialJoin(_, _, _)
\* the joins of descriptors i, i + 1, ... applied to the stream in turn
SequentialJoin(stream, i, nulls_match) ==
  IF i > Len(query_plan_descriptor.output_join_descriptors) THEN stream
  ELSE
    LET d == query_plan_descriptor.output_join_descriptors[i]
    IN SequentialJoin(
         NestedLoopJoin(stream, RowsOf(d.child_query_plan), d.output_names[1],
                        d.output_names[2], nulls_match),
         i + 1, nulls_match)

\* the rows without the intermediate outputs
Projected(rows) ==
  [i \in 1..Len(rows) |->
     [k \in DOMAIN rows[i] \ query_plan_descriptor.intermediate_output_names |->
        rows[i][k]]]

\* the join example of the specification: a plan root -> child joined on
\* (a_out, b_out) and the rows of the two plans
ExampleChildFragment ==
  Document(<<OperationDefinition(SelectionSet(<<
    Field("e", Absent, SelectionSet(<<
      Field("x", Present(<<OutputDirective("b_out")>>), Absent),
      Field("y", Present(<<OutputDirective("val")>>), Absent)>>))>>))>>)
ExampleNode ==
  [query_ast |-> FragNone, schema_id |-> "first",
   child_query_connections |->
     <<[sink_query_node |->
          [query_ast |-> ExampleChildFragment, schema_id |-> "second",
           child_query_connections |-> <<>>],
        source_field_out_name |-> "a_out",
        sink_field_out_name |-> "b_out"]>>]
ExampleResults ==
  0 :> <<[id |-> 1, a_out |-> "x"], [id |-> 2, a_out |-> "y"]>>
  @@ 1 :> <<[b_out |-> "x", val |-> 10], [b_out |-> "x", val |-> 11]>>
ExampleJoined ==
  <<[id |-> 1, a_out |-> "x", b_out |-> "x", val |-> 10],
    [id |-> 1, a_out |-> "x", b_out |-> "x", val |-> 11]>>

C7_NoneNeverJoins ==
  pc = "done" =>
    returned = Present(Projected(SequentialJoin(RowsOf(1), 1, FALSE)))

\* C8: an executor call that raises ends execute_query_plan at once: it is
\* the last call made, the call ends in the executor's error, nothing is
\* returned and no plan is called a second time.
C8_ExecutorErrorAborts ==
  \A i \in 1..Len(calls) :
    calls[i].result = Absent =>
      /\ i = Len(calls)
      /\ pc = "failed"
      /\ raised = "ExecutorError"
      /\ returned = Absent
      /\ \A j \in 1..Len(calls) : j /= i => calls[j].plan /= calls[i].plan

\* the second executor raised and a third plan was never called
C8_Witness ==
  /\ pc = "failed"
  /\ raised = "ExecutorError"
  /\ Len(calls) = 2
  /\ calls[1].result /= Absent
  /\ calls[2].result = Absent
  /\ Len(Plans) >= 3

\* C9: the arguments passed to a plan's executor are the pool restricted to
\* the runtime arguments its fragment names: the keys are the names the
\* fragment references that the pool holds, each with the pool's value; the
\* pool holds the initial arguments and what the plans called so far propagated.
C9_ArgumentsAreReferencedPoolEntries ==
  \A i \in 1..Len(calls) :
    LET referenced ==
          get_query_runtime_arguments(Plans[calls[i].plan].query_ast)
    IN /\ DOMAIN calls[i].subquery_args = referenced \cap DOMAIN calls[i].pool
       /\ \A n \in DOMAIN calls[i].subquery_args :
            calls[i].subquery_args[n] = calls[i].pool[n]
       /\ calls[1].pool \in QueryArgs
       /\ DOMAIN calls[i].pool =
            DOMAIN calls[1].pool \cup
            UNION {ChildExtraOutputNames(
                     stitching_output_names_by_parent_plan_id,
                     Plans[calls[k].plan].plan_id) : k \in 1..(i - 1)}

\* a plan was called with one of the two entries of the pool
C9_Witness ==
  \E i \in 1..Len(calls) :
    /\ DOMAIN calls[i].pool = Names
    /\ DOMAIN calls[i].subquery_args = {"b"}
    /\ calls[i].subquery_args["b"] /= <<>>

RECURSIVE CountOutputs(_, _)
RECURSIVE CountOutputsIn(_, _, _)
\* the fields of an AST that carry an @output of the name
CountOutputs(ast, name) ==
  (IF ast.kind = "Field" /\ FieldHasOutput(ast, name) THEN 1 ELSE 0)
  + (IF ast.selection_set = Absent THEN 0 ELSE CountOutputsIn(ast, name, 1))
CountOutputsIn(ast, name, i) ==
  IF i > Len(ast.selection_set[1]) THEN 0
  ELSE CountOutputs(ast.selection_set[1][i], name)
       + CountOutputsIn(ast, name, i + 1)

RECURSIVE CountOutermostOutputs(_, _)
RECURSIVE CountOutermostOutputsIn(_, _, _)
\* those of them that do not lie in the selection set of another one
CountOutermostOutputs(ast, name) ==
  IF ast.kind = "Field" /\ FieldHasOutput(ast, name) THEN 1
  ELSE IF ast.selection_set = Absent THEN 0
  ELSE CountOutermostOutputsIn(ast, name, 1)
CountOutermostOutputsIn(ast, name, i) ==
  IF i > Len(ast.selection_set[1]) THEN 0
  ELSE CountOutermostOutputs(ast.selection_set[1][i], name)
       + CountOutermostOutputsIn(ast, name, i + 1)

RECURSIVE ConnectionsOf(_)
\* the connections of a node tree: the child's query and the sink name
ConnectionsOf(node) ==
  UNION {
    {[ast |-> get_only_query_definition(
                node.child_query_connections[i].sink_query_node.query_ast),
      sink |-> node.child_query_connections[i].sink_field_out_name]}
    \cup ConnectionsOf(node.child_query_connections[i].sink_query_node) :
    i \in 1..Len(node.child_query_connections)}

\* C10 as claimed: two or more fields with the target @output anywhere in a
\* child fragment make make_query_plan fail with the validation error: no plan
\* is returned when a connection's fragment has two such fields, and when
\* every connection's fragment has two the error is the validation error.
C10_AnyTwoOutputsAreAmbiguous ==
  LET connections == ConnectionsOf(root_sub_query_node[1])
  IN /\ pc = "planned" =>
          \A c \in connections : CountOutputs(c.ast, c.sink) < 2
     /\ (pc = "build_failed" /\ connections /= {}
           /\ \A c \in connections : CountOutputs(c.ast, c.sink) >= 2) =>
          raised = "GraphQLValidationError"

\* C10 amended: the ambiguity is detected among the fields carrying the
\* target @output that do not lie in the selection set of another such field
\* (siblings, different branches): two or more of those make make_query_plan
\* fail with the validation error.  A field with the target @output nested in
\* the selection set of another one is not looked at: the filter goes to the
\* outer field and a plan is returned.
C10_TwoOutermostOutputsAreAmbiguous ==
  LET connections == ConnectionsOf(root_sub_query_node[1])
  IN /\ pc = "planned" =>
          \A c \in connections : CountOutermostOutputs(c.ast, c.sink) < 2
     /\ (pc = "build_failed" /\ connections /= {}
           /\ \A c \in connections :
                CountOutermostOutputs(c.ast, c.sink) >= 2) =>
          raised = "GraphQLValidationError"
     /\ (pc \in {"planned", "build_failed"} /\ connections /= {}
           /\ \A c \in connections :
                /\ CountOutputs(c.ast, c.sink) >= 2
                /\ CountOutermostOutputs(c.ast, c.sink) = 1) =>
          pc = "planned"

\* the two fields sit in different branches and the build failed on them
C10_Witness ==
  /\ pc = "build_failed"
  /\ raised = "GraphQLValidationError"
  /\ root_sub_query_node[1].query_ast = FragBranches
  /\ \E c \in ConnectionsOf(root_sub_query_node[1]) :
       CountOutermostOutputs(c.ast, c.sink) = 2

RECURSIVE OnlySelections(_)
\* every node of the AST is a Field, an InlineFragment or an
\* OperationDefinition
OnlySelections(ast) ==
  /\ ast.kind \in {"Field", "InlineFragment", "OperationDefinition"}
  /\ ast.selection_set /= Absent =>
       \A i \in 1..Len(ast.selection_set[1]) :
          OnlySelections(ast.selection_set[1][i])

\* C11: when no field of a child fragment carries an @output named
\* sink_field_out_name, the injector returns the very fragment it was given,
\* unchanged, and make_query_plan fails with an AssertionError (not the
\* validation error) and returns no descriptor: a returned plan has no such
\* connection, and when every connection is one the error is AssertionError.
C11_NoOutputFailsTheBuild ==
  LET connections == ConnectionsOf(root_sub_query_node[1])
      NotFound == {c \in connections : CountOutputs(c.ast, c.sink) = 0}
  IN /\ pc \in {"planned", "build_failed"} =>
          \A c \in NotFound :
             OnlySelections(c.ast) =>
               \A input_filter_name \in Names :
                  add_filter_at_field_with_output(c.ast, c.sink,
                                                  input_filter_name)
                    = [err |-> "none", same |-> TRUE, ast |-> c.ast]
     /\ pc \in {"planned", "executing", "done", "failed"} => NotFound = {}
     /\ (pc = "build_failed" /\ connections /= {} /\ NotFound = connections) =>
          /\ raised = "AssertionError"
          /\ query_plan_descriptor = NoDescriptor
          /\ returned = Absent

\* a build that failed on a fragment without any @output
C11_Witness ==
  /\ pc = "build_failed"
  /\ raised = "AssertionError"
  /\ root_sub_query_node[1].query_ast = FragNone
  /\ \E c \in ConnectionsOf(root_sub_query_node[1]) :
       /\ CountOutputs(c.ast, c.sink) = 0
       /\ OnlySelections(c.ast)

RECURSIVE NodesInPreorder(_, _, _)
RECURSIVE ConnectionsInPreorder(_, _)
\* the nodes of a tree in preorder, each with its document and the names of
\* the connection that leads to it
NodesInPreorder(node, source, sink) ==
  <<[query_ast |-> node.query_ast, source |-> source, sink |-> sink]>>
  \o ConnectionsInPreorder(node.child_query_connections, 1)
ConnectionsInPreorder(connections, i) ==
  IF i > Len(connections) THEN <<>>
  ELSE NodesInPreorder(connections[i].sink_query_node,
                       connections[i].source_field_out_name,
                       connections[i].sink_field_out_name)
       \o ConnectionsInPreorder(connections, i + 1)

\* the field object carries an @output of the name
ObjectHasOutput(objects, o, name) ==
  /\ objects[o].kind = "Field"
  /\ objects[o].directives /= Absent
  /\ \E i \in 1..Len(objects[objects[o].directives[1]].items) :
        is_output_directive_with_name(
          objects[objects[o].directives[1]].items[i], name)

\* the selections (references) of a node object that has a selection set
SelectionsOf(objects, o) ==
  objects[objects[objects[o].selection_set[1]].items[1]].items

RECURSIVE PathCopy(_, _, _, _, _, _)
\* n is a new object that stands for the input object o on the path to the
\* matched field: at the matched field a new list of directives, the old ones
\* followed by the one filter, and the very selection set of o; above it the
\* very directives of o and a new selection set in which exactly one
\* selection is such a new object and every other one is the input's object
PathCopy(objects, n, o, input_objects, source, sink) ==
  /\ n > input_objects
  /\ o <= input_objects
  /\ objects[n].kind = objects[o].kind
  /\ objects[n].name = objects[o].name
  /\ IF ObjectHasOutput(objects, o, sink)
     THEN /\ objects[n].selection_set = objects[o].selection_set
          /\ objects[n].directives /= Absent
          /\ objects[n].directives[1] > input_objects
          /\ objects[objects[n].directives[1]].items =
               Append(objects[objects[o].directives[1]].items,
                      get_in_collection_filter_directive(source))
     ELSE /\ objects[n].directives = objects[o].directives
          /\ objects[o].selection_set /= Absent
          /\ objects[n].selection_set /= Absent
          /\ objects[n].selection_set[1] > input_objects
          /\ objects[objects[n].selection_set[1]].items[1] > input_objects
          /\ LET new == SelectionsOf(objects, n)
                 old == SelectionsOf(objects, o)
             IN /\ Len(new) = Len(old)
                /\ \E i \in 1..Len(old) :
                     /\ PathCopy(objects, new[i], old[i], input_objects,
                                 source, sink)
                     /\ \A j \in 1..Len(old) : j /= i => new[j] = old[j]

\* C12: make_query_plan does not change its input, whether it returns or
\* raises: no object of a fragment of the input node tree is changed, so every
\* fragment reads as it did before.  In a plan's rewritten fragment only the
\* objects on the path from the root to the matched field are new, every
\* selection off the path is the input's own object, and the matched field
\* is the original with the one in_collection filter appended after its
\* directives.  The root plan holds the root node's own document.
C12_InputUntouchedAndShared ==
  pc \in {"planned", "build_failed"} =>
    LET nodes == NodesInPreorder(root_sub_query_node[1], "", "")
        tracked == heap.tracked
    IN /\ heap.err = (IF pc = "planned" THEN "none" ELSE raised)
       /\ Len(tracked) <= Len(nodes)
       /\ \A k \in 1..Len(tracked) :
            LET before == StoredDocument(<<>>, nodes[k].query_ast)
            IN /\ tracked[k].input_objects = Len(before.heap)
               /\ tracked[k].query_ast = before.ref
               /\ \A r \in 1..Len(before.heap) :
                    tracked[k].objects[r] = before.heap[r]
               /\ DocumentAt(tracked[k].objects, tracked[k].query_ast)
                    = nodes[k].query_ast
       /\ pc = "planned" =>
            /\ Len(tracked) = Len(nodes)
            /\ Len(tracked) = Len(Plans)
            /\ tracked[1].plan_ast = Present(tracked[1].query_ast)
            /\ \A k \in 1..Len(nodes) :
                 /\ tracked[k].plan_ast /= Absent
                 /\ DocumentAt(tracked[k].objects, tracked[k].plan_ast[1])
                      = Plans[k].query_ast
            /\ \A k \in 2..Len(nodes) :
                 LET objects == tracked[k].objects
                     plan_ast == tracked[k].plan_ast[1]
                 IN /\ plan_ast > tracked[k].input_objects
                    /\ Len(objects[plan_ast].items) = 1
                    /\ PathCopy(objects, objects[plan_ast].items[1],
                                objects[tracked[k].query_ast].items[1],
                                tracked[k].input_objects, nodes[k].source,
                                nodes[k].sink)

\* a plan whose rewritten fragment shares a selection with the input next to
\* a new one, the matched field lying below an inline fragment
C12_Witness ==
  /\ pc = "planned"
  /\ root_sub_query_node[1].query_ast = FragFiltered
  /\ \E k \in 2..Len(heap.tracked) :
       LET objects == heap.tracked[k].objects
           selections ==
             SelectionsOf(objects, objects[heap.tracked[k].plan_ast[1]].items[1])
       IN /\ \E i \in 1..Len(selections) :
               selections[i] <= heap.tracked[k].input_objects
          /\ \E i \in 1..Len(selections) :
               /\ selections[i] > heap.tracked[k].input_objects
               /\ objects[selections[i]].kind = "InlineFragment"

\* the number of executor calls both invocations have made
CommonCalls ==
  IF Len(calls) < Len(previous[1].calls) THEN Len(calls)
  ELSE Len(previous[1].calls)

\* two argument dicts hold the same names and under every name as many values
\* and the same values, whatever their order
SameUpToOrder(args1, args2) ==
  /\ DOMAIN args1 = DOMAIN args2
  /\ \A n \in DOMAIN args1 :
       /\ Len(args1[n]) = Len(args2[n])
       /\ Elements(args1[n]) = Elements(args2[n])

\* C13 as claimed: a second invocation of execute_query_plan with the same
\* descriptor, the same initial arguments and executors that are the same
\* function of query and arguments passes the same ordered lists of values to
\* every executor call and returns the same rows.
C13_RepeatedExecutionIsIdentical ==
  (previous /= Absent /\ ExecutorIsAFunction) =>
    /\ \A i \in 1..CommonCalls :
         calls[i].subquery_args = previous[1].calls[i].subquery_args
    /\ pc \in {"done", "failed"} =>
         /\ returned = previous[1].returned
         /\ raised = previous[1].raised

\* C13 amended: the values passed are the same, their order is not fixed.  As
\* long as the earlier calls of the two invocations got identical arguments,
\* the next call runs the same plan and gets the same names with the same
\* distinct values in lists of the same length, in an order of its own (the
\* iteration order of a set); and two invocations all of whose calls got
\* identical arguments make the same calls and end alike, with identical rows.
C13_IdenticalUnlessValuesAreOrderedDifferently ==
  (previous /= Absent /\ ExecutorIsAFunction) =>
    /\ \A i \in 1..CommonCalls :
         (\A j \in 1..(i - 1) :
            calls[j].subquery_args = previous[1].calls[j].subquery_args) =>
           /\ calls[i].plan = previous[1].calls[i].plan
           /\ SameUpToOrder(calls[i].subquery_args,
                            previous[1].calls[i].subquery_args)
           /\ calls[i].subquery_args = previous[1].calls[i].subquery_args =>
                calls[i].result = previous[1].calls[i].result
    /\ (/\ pc \in {"done", "failed"}
        /\ \A i \in 1..CommonCalls :
             calls[i].subquery_args = previous[1].calls[i].subquery_args) =>
         /\ Len(calls) = Len(previous[1].calls)
         /\ pc = previous[1].pc
         /\ returned = previous[1].returned
         /\ raised = previous[1].raised

\* both invocations passed the same list of two values to the child and
\* returned the same row
C13_Witness ==
  /\ previous /= Absent
  /\ ExecutorIsAFunction
  /\ pc = "done"
  /\ Len(calls) = 2
  /\ calls[2].subquery_args = previous[1].calls[2].subquery_args
  /\ \E n \in DOMAIN calls[2].subquery_args : Len(calls[2].subquery_args[n]) = 2
  /\ returned = previous[1].returned
  /\ returned /= Present(<<>>)

RECURSIVE ConnectionsVisited(_, _)
RECURSIVE ConnectionsVisitedFrom(_, _, _, _)
\* the connections of a node tree in preorder; nodes are counted in preorder
\* from 1 (the root): each connection with the count of the node declaring
\* it (parent), the count of its sink node (child), its names and its sink
ConnectionsVisited(node, self) == ConnectionsVisitedFrom(node, self, 1, self + 1)
ConnectionsVisitedFrom(node, self, i, next) ==
  IF i > Len(node.child_query_connections) THEN <<>>
  ELSE LET c == node.child_query_connections[i]
           below == ConnectionsVisited(c.sink_query_node, next)
       IN <<[parent |-> self, child |-> next,
             source |-> c.source_field_out_name,
             sink |-> c.sink_field_out_name,
             sink_query_node |-> c.sink_query_node]>>
          \o below
          \o ConnectionsVisitedFrom(node, self, i + 1, next + 1 + Len(below))

\* C14: a returned descriptor has exactly one OutputJoinDescriptor per child
\* connection, in the preorder in which the connections are visited: the i-th
\* descriptor carries (source_field_out_name, sink_field_out_name) of the
\* i-th connection, its child plan is the plan created for that connection's
\* sink node (the i-th plan created after the root's, with the sink's schema
\* and the sink's fragment with the filter added), that plan's parent is the
\* plan of the declaring node, which lists it among its children; so a
\* descriptor whose parent plan is not the root comes after the descriptor
\* that joins its parent plan.
C14_OneDescriptorPerConnectionInPreorder ==
  query_plan_descriptor.err = "none" =>
    LET visited == ConnectionsVisited(root_sub_query_node[1], 1)
        descriptors == query_plan_descriptor.output_join_descriptors
    IN /\ Len(descriptors) = Len(visited)
       /\ Len(descriptors) = CountConnections(root_sub_query_node[1])
       /\ Len(Plans) = Len(visited) + 1
       /\ \A i \in 1..Len(visited) :
            LET child == descriptors[i].child_query_plan
                injected ==
                  add_filter_at_field_with_output(
                    get_only_query_definition(
                      visited[i].sink_query_node.query_ast),
                    visited[i].sink, visited[i].source)
            IN /\ descriptors[i].output_names
                    = <<visited[i].source, visited[i].sink>>
               /\ child = visited[i].child
               /\ Plans[child].schema_id = visited[i].sink_query_node.schema_id
               /\ Plans[child].query_ast = Document(<<injected.ast>>)
               /\ Plans[child].parent_query_plan = Present(visited[i].parent)
               /\ \E k \in 1..Len(Plans[visited[i].parent].child_query_plans) :
                    Plans[visited[i].parent].child_query_plans[k] = child
               /\ visited[i].parent /= query_plan_descriptor.root_sub_query_plan
                    => \E j \in 1..(i - 1) :
                         descriptors[j].child_query_plan = visited[i].parent

\* a plan for root -> [A -> [A1], B] with a connection whose two names differ:
\* the descriptor of A1 under A stands between those of A and of B
C14_Witness ==
  /\ query_plan_descriptor.err = "none"
  /\ Len(query_plan_descriptor.output_join_descriptors) = 3
  /\ Plans[query_plan_descriptor.output_join_descriptors[2].child_query_plan]
       .parent_query_plan = Present(2)
  /\ Plans[query_plan_descriptor.output_join_descriptors[3].child_query_plan]
       .parent_query_plan = Present(1)
  /\ query_plan_descriptor.output_join_descriptors[2].output_names = <<"a", "b">>

\* the rows _join_results hands to the projection
JoinedRows ==
  join_results(
    Plans, result_components_by_plan_id,
    make_join_indexes(query_plan_descriptor,
                      result_components_by_plan_id).indexes,
    result_components_by_plan_id[
      Plans[query_plan_descriptor.root_sub_query_plan].plan_id],
    query_plan_descriptor.output_join_descriptors).rows

\* C15: every row execute_query_plan returns has no field named in
\* intermediate_output_names and has every other field of the joined row it
\* comes from, with the same value; one row is returned per joined row, in
\* order.  For a plan without child connections the rows returned are the
\* root executor's rows, in order, without the intermediate fields.
C15_IntermediateOutputsDropped ==
  pc = "done" =>
    LET rows == returned[1]
        dropped == query_plan_descriptor.intermediate_output_names
    IN /\ Len(rows) = Len(JoinedRows)
       /\ \A i \in 1..Len(rows) :
            /\ DOMAIN rows[i] \cap dropped = {}
            /\ DOMAIN rows[i] = DOMAIN JoinedRows[i] \ dropped
            /\ \A k \in DOMAIN rows[i] : rows[i][k] = JoinedRows[i][k]
       /\ Len(Plans) = 1 =>
            /\ Len(rows) = Len(RowsOf(1))
            /\ \A i \in 1..Len(rows) :
                 /\ DOMAIN rows[i] = DOMAIN RowsOf(1)[i] \ dropped
                 /\ \A k \in DOMAIN rows[i] : rows[i][k] = RowsOf(1)[i][k]

\* a joined row came back without its intermediate field a and with its
\* field b
C15_Witness ==
  /\ pc = "done"
  /\ query_plan_descriptor.intermediate_output_names = {"a"}
  /\ Len(Plans) = 2
  /\ Len(returned[1]) = 1
  /\ DOMAIN JoinedRows[1] = {"a", "b"}
  /\ DOMAIN returned[1][1] = {"b"}
  /\ returned[1][1]["b"] = JoinedRows[1]["b"]
  /\ returned[1][1]["b"] /= None

==========================================================================
